---- MODULE Spec2Model ----
(***************************************************************************)
(* A model of the "fresh air" processing core: the ramped gain stage       *)
(* (src/gain.py, copied in src/test.py), the dynamics unit                 *)
(* (src/compressor.py, copied in src/test.py), the ZDF filter as the       *)
(* composite uses it (src/test.py) and with its design step                *)
(* (src/filter.py), and the composite FreshAirClone (src/test.py).         *)
(*                                                                         *)
(* Numbers.  The source computes in IEEE doubles.  Here a number is a      *)
(* rational <<n, d>> in lowest terms with d > 0.  Every arithmetic result  *)
(* whose denominator is at most Precision is kept exactly; a result with a *)
(* larger denominator is rounded down to the grid of multiples of          *)
(* 1/Precision, the way a finite-precision format rounds.  The unit        *)
(* specifications (SpecGain, SpecDyn) draw their inputs so that the values *)
(* their claims speak of stay in the exact range; the composite (Spec)     *)
(* rounds.  IEEE rounding itself (e.g. 49 * (1/49) # 1) is not modelled.   *)
(***************************************************************************)
EXTENDS Integers, Sequences, FiniteSets, TLC

VARIABLES
    g,       \* the StereoGainMeter instance under test (its fields)
    gl, gr,  \* the caller's left/right buffers as the last call left them
    gcall,   \* what the last StereoGainMeter.process_block call was and did
    gn,      \* [calls, mismatched]: what the harness has done
    du,      \* the UnknownCompressor instance under test (configuration and state)
    dcall,   \* what the last UnknownCompressor.process_block call was and did
    dn,      \* [configured, calls, mismatched]: what its harness has done
    fa,      \* the FreshAirClone instance (its components and knobs)
    fcall,   \* what the last call on the FreshAirClone was and did
    fn,      \* [calls, sets, mismatched]: what the host has done
    zu,      \* the UnknownFilter instances under test: py (src/filter.py) and tp
             \* (src/test.py), and py2, tp2, their twins of the paired run
    zcall,   \* what the last operation on the filters was and did
    zn       \* [sets, calls, differ]: what the filter harness has done

-----------------------------------------------------------------------------
(* Bounds of the model *)

\* denominators up to 2^PrecBits are exact
PrecBits == 12
\* longest left block a caller passes
MaxLen == 2
\* calls made on the gain stage under test
MaxCalls == 3
\* calls made on the dynamics unit under test
MaxDynCalls == 2
\* process calls made on the composite
MaxFaCalls == 2
\* set_parameters calls made on the composite
MaxSets == 1
\* process calls made on the filters under test
MaxFilterCalls == 2
\* coefficient (re)sets made on the filters under test
MaxFilterSets == 1

-----------------------------------------------------------------------------
(* Arithmetic *)

Precision == 2 ^ PrecBits

\* a local of the source: value is computed once, then Body uses it
Local(value, Body(_)) == Body(value)

Abs(n) == IF n < 0 THEN -n ELSE n

RECURSIVE GCD(_, _)
GCD(a, b) == IF b = 0 THEN a ELSE GCD(b, a % b)

\* n/d in lowest terms, d > 0
Norm(n, d) ==
    Local(GCD(Abs(n), d), LAMBDA k : <<n \div k, d \div k>>)

\* floor(r * 2^k / d) for 0 <= r < d
RECURSIVE Frac(_, _, _)
Frac(r, d, k) ==
    IF k = 0 THEN 0
    ELSE IF 2 * r >= d THEN 2 ^ (k - 1) + Frac(2 * r - d, d, k - 1)
    ELSE Frac(2 * r, d, k - 1)

\* the finite precision: a denominator above Precision is rounded down to the grid
Fit(x) ==
    IF x[2] <= Precision THEN x
    ELSE Norm((x[1] \div x[2]) * Precision + Frac(x[1] % x[2], x[2], PrecBits), Precision)

R(n) == <<n, 1>>
Zero == R(0)
One == R(1)
Two == R(2)
Half == <<1, 2>>

RNeg(a) == <<-a[1], a[2]>>

RAdd(a, b) ==
    Local(GCD(a[2], b[2]), LAMBDA k :
        Fit(Norm(a[1] * (b[2] \div k) + b[1] * (a[2] \div k), (a[2] \div k) * b[2])))

RSub(a, b) == RAdd(a, RNeg(b))

RMul(a, b) ==
    IF a[1] = 0 \/ b[1] = 0 THEN Zero
    ELSE Local(GCD(Abs(a[1]), b[2]), LAMBDA k1 :
         Local(GCD(Abs(b[1]), a[2]), LAMBDA k2 :
             Fit(<<(a[1] \div k1) * (b[1] \div k2), (a[2] \div k2) * (b[2] \div k1)>>)))

\* 1/a, a # 0
RInv(a) == IF a[1] > 0 THEN <<a[2], a[1]>> ELSE <<-a[2], -a[1]>>

\* a/b, b # 0 (the callers test b = 0 first: Python raises ZeroDivisionError)
RDiv(a, b) == RMul(a, RInv(b))

\* n1/d1 < n2/d2 without forming a product (d1, d2 > 0): compare the integer
\* parts, then the reciprocals of the fractional parts
RECURSIVE Less(_, _, _, _)
Less(n1, d1, n2, d2) ==
    IF n1 \div d1 # n2 \div d2 THEN n1 \div d1 < n2 \div d2
    ELSE IF n2 % d2 = 0 THEN FALSE
    ELSE IF n1 % d1 = 0 THEN TRUE
    ELSE Less(d2, n2 % d2, d1, n1 % d1)

RLt(a, b) == Less(a[1], a[2], b[1], b[2])
RLe(a, b) == ~RLt(b, a)
RAbs(a) == <<Abs(a[1]), a[2]>>
RMax(a, b) == IF RLt(a, b) THEN b ELSE a

\* floor(sqrt(m)) for an integer m >= 0, searched between lo and hi (lo^2 <= m < hi^2)
RECURSIVE ISqrtBetween(_, _, _)
ISqrtBetween(m, lo, hi) ==
    IF hi - lo <= 1 THEN lo
    ELSE LET mid == (lo + hi) \div 2
         IN  IF mid * mid <= m THEN ISqrtBetween(m, mid, hi) ELSE ISqrtBetween(m, lo, mid)

ISqrt(m) == ISqrtBetween(m, 0, IF m < 46340 THEN m + 1 ELSE 46340)

SqrtBits == PrecBits \div 2

\* math.sqrt for x >= 0: exact when x is the square of a rational, else rounded
\* down to the grid of multiples of 1/2^SqrtBits
Sqrt(x) ==
    Local(ISqrt(x[1]), LAMBDA rn :
    Local(ISqrt(x[2]), LAMBDA rd :
        IF rn * rn = x[1] /\ rd * rd = x[2]
        THEN <<rn, rd>>
        ELSE Norm(ISqrt((x[1] \div x[2]) * 2 ^ (2 * SqrtBits)
                        + Frac(x[1] % x[2], x[2], 2 * SqrtBits)), 2 ^ SqrtBits)))

\* slope rounded to the nearest eighth, as a number of eighths (0..8)
Eighths(s) == (16 * s[1] + s[2]) \div (2 * s[2])

\* math.pow(x, s) for x >= 0 and 0 <= s <= 1: pow(x, 0) = 1 (also for x = 0),
\* pow(0, s) = 0 for s > 0; otherwise x^(e/8) for e the eighths of s, as a
\* product of repeated square roots (x^(1/2), x^(1/4), x^(1/8))
Pow(x, s) ==
    IF s[1] = 0 THEN One
    ELSE IF x[1] = 0 THEN Zero
    ELSE IF Eighths(s) = 8 THEN x
    ELSE Local(Eighths(s), LAMBDA e :
         Local(Sqrt(x), LAMBDA r2 :
         Local(Sqrt(r2), LAMBDA r4 :
             RMul(RMul(IF (e \div 4) % 2 = 1 THEN r2 ELSE One,
                       IF (e \div 2) % 2 = 1 THEN r4 ELSE One),
                  IF e % 2 = 1 THEN Sqrt(r4) ELSE One))))

-----------------------------------------------------------------------------
(* StereoGainMeter (the spec's RampedGainStage) *)

\* gain.py:67  abs(diff) >= 1e-15.  Every non-zero number of this model is at
\* least 1/2^31 in magnitude, far above 1e-15, so the test is diff # 0 here.
AtLeastTolerance(x) == x[1] # 0

\* gain.py:2  the default metering coefficients, 0.1
DefaultMeterCoeff == <<1, 10>>

\* gain.py:10-33  StereoGainMeter.__init__
GainInit(meter_coeff_l, meter_coeff_r) ==
    [ initialized        |-> FALSE,
      stored_target_gain |-> Zero,
      start_gain         |-> Zero,
      current_gain       |-> Zero,
      ramp_step          |-> Zero,
      meter_coeff_l      |-> meter_coeff_l,
      meter_coeff_r      |-> meter_coeff_r,
      meter_state_l      |-> Zero,
      meter_state_r      |-> Zero ]

\* gain.py:44-48  the target the caller's mode and values resolve to
TargetGain(config_mode, config_val_normal, config_val_boost) ==
    IF config_mode = 1 THEN RMul(config_val_boost, Two) ELSE config_val_normal

\* a first call that leaves start and current gain at the constructor's 0
GainFirstSetupNoSnap(s, target_gain) ==
    [s EXCEPT !.initialized = TRUE, !.stored_target_gain = target_gain, !.ramp_step = Zero]

\* gain.py:53-61  the first call: snap to the target
GainFirstSetup(s, target_gain) ==
    [s EXCEPT !.initialized = TRUE,
              !.start_gain = target_gain,
              !.stored_target_gain = target_gain,
              !.ramp_step = Zero,
              !.current_gain = target_gain]

\* a ramp that keeps the origin of the block before
GainRampSetupStaleStart(s, block_size) ==
    [s EXCEPT !.ramp_step = RDiv(One, R(block_size))]

\* gain.py:67-71  the target changed: ramp over this block from the stored target
\* (block_size > 0)
GainRampSetup(s, block_size) ==
    [s EXCEPT !.ramp_step = RDiv(One, R(block_size)),
              !.start_gain = s.stored_target_gain]

\* an unchanged target that leaves the ramp of the block before in place
GainHoldSetupStale(s, target_gain) == s

\* gain.py:72-75  the target did not change: no ramp
GainHoldSetup(s, target_gain) ==
    [s EXCEPT !.ramp_step = Zero, !.start_gain = target_gain]

\* gain.py:53-79  the per-block setup.  raised: 1.0 / float(0) raises
\* ZeroDivisionError at line 69, before any field of an initialized stage is
\* written.  Line 79 stores the target for the next call's comparison.
GainSetup(s, target_gain, block_size) ==
    IF ~s.initialized
    THEN [ raised |-> FALSE, state |-> GainFirstSetup(s, target_gain) ]
    ELSE IF AtLeastTolerance(RAbs(RSub(target_gain, s.stored_target_gain)))
    THEN IF block_size = 0
         THEN [ raised |-> TRUE, state |-> s ]
         ELSE [ raised |-> FALSE,
                state  |-> [GainRampSetup(s, block_size)
                                EXCEPT !.stored_target_gain = target_gain] ]
    ELSE [ raised |-> FALSE,
           state  |-> [GainHoldSetup(s, target_gain)
                           EXCEPT !.stored_target_gain = target_gain] ]

\* a ramp counter that is read before it is incremented
CalculatedGainLate(s, target_gain, i) ==
    LET t == RMul(R(i - 1), s.ramp_step)
    IN  IF RLt(Zero, s.ramp_step)
        THEN RAdd(RMul(RSub(One, t), s.start_gain), RMul(t, target_gain))
        ELSE target_gain

\* gain.py:88-101  the gain of sample i (ramp_counter = i)
CalculatedGain(s, target_gain, i) ==
    LET t == RMul(R(i), s.ramp_step)
    IN  IF RLt(Zero, s.ramp_step)
        THEN RAdd(RMul(RSub(One, t), s.start_gain), RMul(t, target_gain))
        ELSE target_gain

\* gain.py:113-115, 125-126  state = (energy - state) * coeff + state
MeterUpdate(state, out, coeff) ==
    RAdd(RMul(RSub(RMul(out, out), state), coeff), state)

\* gain.py:86-126  sample i of the loop.  blk is the call in progress: [raised,
\* state, left, right (the caller's lists, written in place), gains (the gain
\* applied to each sample so far)].  right_samples[i] raises IndexError at line
\* 118 when right is the shorter list, after left_samples[i], current_gain and
\* the left meter were written.
GainSample(blk, target_gain, i) ==
    Local(CalculatedGain(blk.state, target_gain, i), LAMBDA calculated_gain :
    Local(RMul(blk.left[i], calculated_gain), LAMBDA out_l :
    Local([blk EXCEPT !.state.current_gain = calculated_gain,
                      !.state.meter_state_l = MeterUpdate(@, out_l, blk.state.meter_coeff_l),
                      !.left[i] = out_l,
                      !.gains = Append(@, calculated_gain)], LAMBDA written :
        IF i > Len(blk.right)
        THEN [written EXCEPT !.raised = TRUE]
        ELSE Local(RMul(blk.right[i], calculated_gain), LAMBDA out_r :
                 [written EXCEPT !.state.meter_state_r =
                                     MeterUpdate(@, out_r, blk.state.meter_coeff_r),
                                 !.right[i] = out_r]))))

\* gain.py:85  for i in range(block_size), from sample i on; a raise ends the loop
RECURSIVE GainLoop(_, _, _)
GainLoop(blk, target_gain, i) ==
    IF blk.raised \/ i > Len(blk.left) THEN blk
    ELSE GainLoop(GainSample(blk, target_gain, i), target_gain, i + 1)

\* gain.py:35-126  StereoGainMeter.process_block, the whole call
GainProcessBlock(s, left, right, config_mode, config_val_normal, config_val_boost) ==
    Local(TargetGain(config_mode, config_val_normal, config_val_boost), LAMBDA target_gain :
    Local(GainSetup(s, target_gain, Len(left)), LAMBDA setup :
        IF setup.raised
        THEN [ raised |-> TRUE, state |-> setup.state, left |-> left, right |-> right,
               gains |-> <<>> ]
        ELSE GainLoop([ raised |-> FALSE, state |-> setup.state, left |-> left,
                        right |-> right, gains |-> <<>> ], target_gain, 1)))

-----------------------------------------------------------------------------
(* The harness of the gain stage: a caller that builds a block and calls *)

\* the samples a caller puts in its buffers
SampleL(i) == IF i % 2 = 1 THEN One ELSE R(-2)
SampleR(i) == IF i % 2 = 1 THEN R(-1) ELSE <<1, 2>>
InLeft(n) == [i \in 1..n |-> SampleL(i)]
InRight(n) == [i \in 1..n |-> SampleR(i)]

\* <<config_mode, config_val_normal, config_val_boost>> a caller passes:
\* the targets 1, 2 (boost mode doubles 1) and 1 again (boost mode doubles 1/2)
GainConfigs ==
    { <<0, One, Zero>>, <<1, R(5), One>>, <<1, Zero, Half>> }

\* the block lengths a caller passes with left and right alike
BlockLens == {0, 1, MaxLen}

\* <<len(left), len(right)>> of a call that breaks the equal-length contract
MismatchedLens == { <<1, 0>>, <<0, 1>>, <<MaxLen + 1, 1>>, <<MaxLen, MaxLen + 1>> }

NoCall ==
    [ target |-> Zero, n |-> 0, m |-> 0, raised |-> FALSE, gains |-> <<>>,
      pre |-> GainInit(DefaultMeterCoeff, DefaultMeterCoeff),
      inl |-> <<>>, inr |-> <<>>,
      prev |-> [ made |-> FALSE, raised |-> FALSE, n |-> 0, changed |-> FALSE ] ]

GainHarnessInit ==
    /\ g = GainInit(DefaultMeterCoeff, DefaultMeterCoeff)
    /\ gl = <<>>
    /\ gr = <<>>
    /\ gcall = NoCall
    /\ gn = [ calls |-> 0, mismatched |-> FALSE ]

\* one process_block call with a left block of n samples and a right block of m
GainCall(cfg, n, m) ==
    Local(GainProcessBlock(g, InLeft(n), InRight(m), cfg[1], cfg[2], cfg[3]), LAMBDA res :
        /\ g' = res.state
        /\ gl' = res.left
        /\ gr' = res.right
        /\ gcall' = [ target |-> TargetGain(cfg[1], cfg[2], cfg[3]), n |-> n, m |-> m,
                      raised |-> res.raised, gains |-> res.gains, pre |-> g,
                      inl |-> InLeft(n), inr |-> InRight(m),
                      prev |-> [ made |-> gn.calls > 0, raised |-> gcall.raised,
                                 n |-> gcall.n,
                                 changed |-> gn.calls > 0 /\ gcall.pre.initialized
                                             /\ gcall.target # gcall.pre.stored_target_gain ] ])

GainProcess ==
    /\ gn.calls < MaxCalls
    /\ \E cfg \in GainConfigs, n \in BlockLens :
          /\ GainCall(cfg, n, n)
          /\ gn' = [gn EXCEPT !.calls = @ + 1]

\* at most one call of a run passes left and right of different lengths
GainProcessMismatched ==
    /\ gn.calls < MaxCalls
    /\ ~gn.mismatched
    /\ \E cfg \in GainConfigs, nm \in MismatchedLens :
          /\ GainCall(cfg, nm[1], nm[2])
          /\ gn' = [calls |-> gn.calls + 1, mismatched |-> TRUE]

GainNext == GainProcess \/ GainProcessMismatched

-----------------------------------------------------------------------------
(* The claims about the gain stage, checked under SpecGain *)

\* the last call found an initialized stage and a target other than the stored one
GainChanged ==
    /\ gn.calls > 0
    /\ gcall.pre.initialized
    /\ AtLeastTolerance(RAbs(RSub(gcall.target, gcall.pre.stored_target_gain)))

\* the last call found an initialized stage and the stored target again
GainUnchanged ==
    /\ gn.calls > 0
    /\ gcall.pre.initialized
    /\ ~AtLeastTolerance(RAbs(RSub(gcall.target, gcall.pre.stored_target_gain)))

C3_NoRamp ==
    GainUnchanged
    => /\ g.ramp_step = Zero
       /\ g.start_gain = gcall.target
       /\ (~gcall.raised => Len(gcall.gains) = gcall.n)
       /\ \A i \in 1..Len(gcall.gains) :
             /\ gcall.gains[i] = gcall.target
             /\ gl[i] = RMul(gcall.inl[i], gcall.target)
             /\ (i <= Len(gr) => gr[i] = RMul(gcall.inr[i], gcall.target))

C3_Witness ==
    /\ GainUnchanged /\ gcall.prev.changed /\ ~gcall.prev.raised /\ gcall.prev.n >= 1
    /\ gcall.n = MaxLen /\ ~gcall.raised /\ gcall.target = Two

\* C10 (first-call snap): the first call of an instance, whatever its target and
\* block length, sets start_gain, current_gain and stored_target_gain to the
\* target, ramp_step to 0 and initialized to true, and multiplies every sample
\* it processes by exactly the target.
C10_FirstCallSnap ==
    (gn.calls > 0 /\ ~gcall.pre.initialized)
    => /\ g.initialized
       /\ g.start_gain = gcall.target
       /\ g.current_gain = gcall.target
       /\ g.stored_target_gain = gcall.target
       /\ g.ramp_step = Zero
       /\ (~gcall.raised => Len(gcall.gains) = gcall.n)
       /\ \A i \in 1..Len(gcall.gains) :
             /\ gcall.gains[i] = gcall.target
             /\ gl[i] = RMul(gcall.inl[i], gcall.target)
             /\ (i <= Len(gr) => gr[i] = RMul(gcall.inr[i], gcall.target))

C10_Witness ==
    /\ gn.calls = 1 /\ ~gcall.pre.initialized /\ gcall.n >= 2 /\ ~gcall.raised
    /\ gcall.target = Two

\* C11 (RampState invariant): after the per-block setup of every process_block
\* call, whatever the block length (lengths that vary between calls and length 0
\* included), ramp_step is 0 or exactly 1/block_size of the current block, and
\* the interpolation fraction t = i * ramp_step of every sample i processed lies
\* in [0, 1].
C11_RampStepRange ==
    gn.calls > 0
    => /\ \/ g.ramp_step = Zero
          \/ gcall.n >= 1 /\ g.ramp_step = RDiv(One, R(gcall.n))
       /\ \A i \in 1..Len(gcall.gains) :
             /\ RLe(Zero, RMul(R(i), g.ramp_step))
             /\ RLe(RMul(R(i), g.ramp_step), One)

-----------------------------------------------------------------------------
(* UnknownCompressor (the spec's DynamicsUnit) *)

\* compressor.py:37  EPSILON = 9.536743e-07 (2^-20) lies below the grid of this
\* model; it is modelled by the model's own smallest positive number.
EPSILON == <<1, Precision>>

\* Seconds, as rationals: the defaults of compressor.py:23-24 and the two
\* internal time constants of compressor.py:67, 71
DefaultAttackTime == <<1, 500>>
DefaultReleaseTime == <<1, 10>>
RmsTime == <<1, 20>>
GainSmoothTime == <<1, 200>>

\* math.exp(-1.0 / (time_seconds * sample_rate)) of compressor.py:50, for
\* sample_rate = 200 / ln 2 Hz (a 5 ms time constant halves per sample) and the
\* four time constants that occur: 1/2 exactly, the others 2^(-5/2), 2^(-1/10)
\* and 2^(-1/20) rounded to 12 bits.
ExpDecay(time_seconds) ==
    CASE time_seconds = <<1, 500>> -> <<181, 1024>>
      [] time_seconds = <<1, 200>> -> <<1, 2>>
      [] time_seconds = <<1, 20>>  -> <<1911, 2048>>
      [] time_seconds = <<1, 10>>  -> <<989, 1024>>

\* compressor.py:39-50  _calc_coeff
CalcCoeff(time_seconds) ==
    IF RLe(time_seconds, Zero) THEN One ELSE RSub(One, ExpDecay(time_seconds))

\* compressor.py:75  slope = 1 - 1/ratio if ratio > 1 else 0
Slope(ratio) ==
    IF RLt(One, ratio) THEN RSub(One, RDiv(One, ratio)) ELSE Zero

\* compressor.py:4-37  UnknownCompressor.__init__
DynInit ==
    [ mode         |-> 2,
      threshold    |-> One,
      ratio        |-> R(4),
      attack_time  |-> DefaultAttackTime,
      release_time |-> DefaultReleaseTime,
      rms_state    |-> Zero,
      peak_state   |-> Zero,
      gain_state   |-> One ]

\* compressor.py:89-100  the RMS detector: [state, env]
RmsDetect(s, samp_l, samp_r) ==
    Local(RMax(RMul(RAdd(RMul(samp_l, samp_l), RMul(samp_r, samp_r)), Half), EPSILON),
          LAMBDA power :
    Local(RAdd(s.rms_state, RMul(RSub(power, s.rms_state), CalcCoeff(RmsTime))),
          LAMBDA rms :
        [ state |-> [s EXCEPT !.rms_state = rms],
          env |-> Sqrt(RMax(Zero, rms)),
          level |-> power,
          coeff |-> CalcCoeff(RmsTime) ]))

\* a level that keeps the sign of the left sample
InputLevelSigned(samp_l, samp_r) ==
    IF RLt(RAbs(samp_r), RAbs(samp_l)) THEN samp_l ELSE RAbs(samp_r)

\* compressor.py:107  the larger of |L| and |R|
InputLevel(samp_l, samp_r) ==
    IF RLt(RAbs(samp_r), RAbs(samp_l)) THEN RAbs(samp_l) ELSE RAbs(samp_r)

\* the two coefficients taken the wrong way round
PeakCoeffSwapped(s, input_level) ==
    IF RLt(s.peak_state, input_level)
    THEN CalcCoeff(s.release_time) ELSE CalcCoeff(s.attack_time)

\* compressor.py:111  attack when the level exceeds the peak state, else release
PeakCoeff(s, input_level) ==
    IF RLt(s.peak_state, input_level)
    THEN CalcCoeff(s.attack_time) ELSE CalcCoeff(s.release_time)

\* compressor.py:102-115  the peak detector: [state, env]
PeakDetect(s, samp_l, samp_r) ==
    Local(InputLevel(samp_l, samp_r), LAMBDA input_level :
    Local(PeakCoeff(s, input_level), LAMBDA coeff :
    Local(RAdd(s.peak_state, RMul(RSub(input_level, s.peak_state), coeff)), LAMBDA peak :
        [ state |-> [s EXCEPT !.peak_state = peak],
          env |-> peak,
          level |-> input_level,
          coeff |-> coeff ])))

\* a gain computer that applies the curve below the threshold too
TargetGainLinearAlways(s, current_env) ==
    LET safe_env == IF RLt(EPSILON, current_env) THEN current_env ELSE EPSILON
    IN  Pow(RDiv(s.threshold, safe_env), Slope(s.ratio))

\* compressor.py:119-131  the gain computer (threshold >= 0)
TargetGainLinear(s, current_env) ==
    IF RLt(s.threshold, current_env)
    THEN LET safe_env == IF RLt(EPSILON, current_env) THEN current_env ELSE EPSILON
         IN  Pow(RDiv(s.threshold, safe_env), Slope(s.ratio))
    ELSE One

\* compressor.py:136  gain_state += (target - gain_state) * gain_smooth_coeff
SmoothGain(gain_state, target_gain_linear) ==
    RAdd(gain_state, RMul(RSub(target_gain_linear, gain_state), CalcCoeff(GainSmoothTime)))

\* compressor.py:82-143  sample i of the loop.  blk is the call in progress:
\* [raised, state, output_l, output_r, trace (what each sample so far did)].
\* right_channel[i] raises IndexError at line 84 when right is the shorter list;
\* the state written by the samples before it stays written.
DynSample(blk, left_channel, right_channel, i) ==
    IF i > Len(right_channel) THEN [blk EXCEPT !.raised = TRUE]
    ELSE Local(IF blk.state.mode = 0
               THEN RmsDetect(blk.state, left_channel[i], right_channel[i])
               ELSE PeakDetect(blk.state, left_channel[i], right_channel[i]), LAMBDA det :
         Local(TargetGainLinear(blk.state, det.env), LAMBDA target_gain_linear :
         Local(SmoothGain(blk.state.gain_state, target_gain_linear), LAMBDA applied_gain :
             [blk EXCEPT !.state = [det.state EXCEPT !.gain_state = applied_gain],
                         !.output_l[i] = RMul(left_channel[i], applied_gain),
                         !.output_r[i] = RMul(right_channel[i], applied_gain),
                         !.trace = Append(@, [ before |-> blk.state, level |-> det.level,
                                               coeff |-> det.coeff, env |-> det.env,
                                               target |-> target_gain_linear,
                                               gain |-> applied_gain ])])))

\* compressor.py:81  for i in range(len(left_channel)), from sample i on; a
\* raise ends the loop
RECURSIVE DynLoop(_, _, _, _)
DynLoop(blk, left_channel, right_channel, i) ==
    IF blk.raised \/ i > Len(left_channel) THEN blk
    ELSE DynLoop(DynSample(blk, left_channel, right_channel, i),
                 left_channel, right_channel, i + 1)

\* compressor.py:52-150  UnknownCompressor.process_block, the whole call
DynProcessBlock(s, left_channel, right_channel) ==
    DynLoop([ raised |-> FALSE, state |-> s,
              output_l |-> [i \in 1..Len(left_channel) |-> Zero],
              output_r |-> [i \in 1..Len(right_channel) |-> Zero],
              trace |-> <<>> ], left_channel, right_channel, 1)

-----------------------------------------------------------------------------
(* The harness of the dynamics unit: a caller that configures it and calls *)

\* the attribute values a caller sets after construction (compressor.py:158-162):
\* times of 5 ms, 0 and -1 ms give the exact coefficients 1/2, 1 and 1
DynConfigs ==
    { [mode |-> 2, threshold |-> Half, ratio |-> R(4),
       attack_time |-> GainSmoothTime, release_time |-> Zero],
      [mode |-> 2, threshold |-> Half, ratio |-> Two,
       attack_time |-> <<-1, 1000>>, release_time |-> GainSmoothTime],
      [mode |-> 2, threshold |-> R(3), ratio |-> R(4),
       attack_time |-> GainSmoothTime, release_time |-> GainSmoothTime],
      [mode |-> 2, threshold |-> Zero, ratio |-> Half,
       attack_time |-> Zero, release_time |-> <<-1, 1000>>],
      [mode |-> 0, threshold |-> One, ratio |-> Two,
       attack_time |-> GainSmoothTime, release_time |-> GainSmoothTime],
      [mode |-> 0, threshold |-> <<1, 4>>, ratio |-> R(-1),
       attack_time |-> Zero, release_time |-> Zero] }

Configure(s, c) ==
    [s EXCEPT !.mode = c.mode, !.threshold = c.threshold, !.ratio = c.ratio,
              !.attack_time = c.attack_time, !.release_time = c.release_time]

\* the amplitudes of the blocks a caller passes: a block holds one level,
\* left = +-a, right = a/2
DynLevels == { Zero, One, Two }
DynLeft(a, n) == [i \in 1..n |-> IF i % 2 = 1 THEN a ELSE RNeg(a)]
DynRight(a, n) == [i \in 1..n |-> RMul(a, Half)]

\* process_block on the first k samples of a block, then on the rest: what the
\* two consecutive calls returned and the state they left
DynSplit(s, left_channel, right_channel, k) ==
    Local(DynProcessBlock(s, SubSeq(left_channel, 1, k), SubSeq(right_channel, 1, k)),
          LAMBDA first :
    Local(DynProcessBlock(first.state, SubSeq(left_channel, k + 1, Len(left_channel)),
                          SubSeq(right_channel, k + 1, Len(right_channel))),
          LAMBDA second :
        [ raised |-> first.raised \/ second.raised, state |-> second.state,
          output_l |-> first.output_l \o second.output_l,
          output_r |-> first.output_r \o second.output_r ]))

NoDynCall ==
    [ level |-> Zero, prev_level |-> Zero, n |-> 0, m |-> 0, raised |-> FALSE, pre |-> DynInit,
      output_l |-> <<>>, output_r |-> <<>>, inl |-> <<>>, inr |-> <<>>, trace |-> <<>>,
      split |-> <<>> ]

DynHarnessInit ==
    /\ du = DynInit
    /\ dcall = NoDynCall
    /\ dn = [ configured |-> FALSE, calls |-> 0, mismatched |-> FALSE ]

\* the caller sets the attributes, once, before it processes
DynConfigure ==
    /\ ~dn.configured
    /\ \E c \in DynConfigs : du' = Configure(du, c)
    /\ dn' = [dn EXCEPT !.configured = TRUE]
    /\ UNCHANGED dcall

\* one process_block call with a block of level a; for a stereo block (n = m)
\* split[k] is what the unit returns and holds when the block is processed as
\* its first k samples and then the rest
DynCall(a, n, m) ==
    Local(DynProcessBlock(du, DynLeft(a, n), DynRight(a, m)), LAMBDA res :
        /\ du' = res.state
        /\ dcall' = [ level |-> a, prev_level |-> dcall.level, n |-> n, m |-> m,
                      raised |-> res.raised, pre |-> du,
                      output_l |-> res.output_l, output_r |-> res.output_r,
                      inl |-> DynLeft(a, n), inr |-> DynRight(a, m),
                      trace |-> res.trace,
                      split |-> [ k \in (IF n = m THEN 0..n ELSE {}) |->
                                    DynSplit(du, DynLeft(a, n), DynRight(a, m), k) ] ])

DynProcess ==
    /\ dn.configured
    /\ dn.calls < MaxDynCalls
    /\ \E a \in DynLevels, n \in BlockLens :
          /\ DynCall(a, n, n)
          /\ dn' = [dn EXCEPT !.calls = @ + 1]

\* at most one call of a run passes left and right of different lengths
DynProcessMismatched ==
    /\ dn.configured
    /\ dn.calls < MaxDynCalls
    /\ ~dn.mismatched
    /\ \E a \in DynLevels, nm \in MismatchedLens :
          /\ DynCall(a, nm[1], nm[2])
          /\ dn' = [dn EXCEPT !.calls = @ + 1, !.mismatched = TRUE]

DynNext == DynConfigure \/ DynProcess \/ DynProcessMismatched

-----------------------------------------------------------------------------
(* The claims about the dynamics unit, checked under SpecDyn *)

\* C8 (gain computer identity below threshold): for every sample whose envelope
\* is at most the threshold, in RMS and in peak mode and for any ratio, the
\* target gain fed to the smoother is exactly 1; if the smoothed gain was 1 it
\* stays 1 and the output samples equal the input samples.
C8_IdentityBelowThreshold ==
    \A i \in 1..Len(dcall.trace) :
        RLe(dcall.trace[i].env, du.threshold)
        => /\ dcall.trace[i].target = One
           /\ dcall.trace[i].before.gain_state = One
                 => /\ dcall.trace[i].gain = One
                    /\ dcall.output_l[i] = dcall.inl[i]
                    /\ dcall.output_r[i] = dcall.inr[i]

C8_Witness ==
    /\ du.mode = 0 /\ dn.calls = 2 /\ dcall.level = One /\ Len(dcall.trace) >= 2
    /\ \A i \in 1..Len(dcall.trace) :
          /\ RLe(dcall.trace[i].env, du.threshold)
          /\ RLt(Zero, dcall.trace[i].env)
          /\ dcall.output_l[i] = dcall.inl[i]

C12_EnvelopeNonNegative ==
    /\ RLe(Zero, du.rms_state)
    /\ RLe(Zero, du.peak_state)
    /\ \A i \in 1..Len(dcall.trace) :
          /\ RLe(Zero, dcall.trace[i].before.rms_state)
          /\ RLe(Zero, dcall.trace[i].before.peak_state)
          /\ RLe(Zero, dcall.trace[i].env)

\* an instant release (time constant <= 0) takes a positive peak state down to
\* exactly 0 over a block of silence that follows a block of level 2
C12_Witness ==
    /\ du.mode # 0 /\ RLe(du.release_time, Zero)
    /\ dn.calls = 2 /\ ~dcall.raised /\ dcall.n >= 2
    /\ dcall.prev_level = Two /\ dcall.level = Zero
    /\ RLt(Zero, dcall.pre.peak_state)
    /\ dcall.trace[1].env = Zero
    /\ du.peak_state = Zero

\* ratio <= 0 or a negative time constant
InvalidConfig(s) ==
    \/ RLe(s.ratio, Zero)
    \/ RLt(s.attack_time, Zero)
    \/ RLt(s.release_time, Zero)

\* C6 (fail fast on invalid configuration): a process_block call on a unit with
\* ratio <= 0 or a negative attack or release time, or with left and right of
\* different lengths (either one the longer), raises instead of producing output.
C6_FailFast ==
    (dn.calls > 0 /\ (InvalidConfig(dcall.pre) \/ dcall.n # dcall.m)) => dcall.raised

\* C5 (no partial failure): a process_block call that raises has overwritten no
\* sample of the caller's buffers and has left every field of the component as
\* it was before the call.
C5_NoPartialFailure ==
    /\ (gn.calls > 0 /\ gcall.raised)
          => /\ g = gcall.pre
             /\ gl = gcall.inl
             /\ gr = gcall.inr
    /\ (dn.calls > 0 /\ dcall.raised)
          => /\ du = dcall.pre
             /\ dcall.output_l = [i \in 1..dcall.n |-> Zero]

-----------------------------------------------------------------------------
(* UnknownFilter as the composite uses it (the spec's ZDFFilter) *)

\* n ten-thousandths, in the precision of the model: the decoded table
\* constants of test.py are written to four decimals
Dec(n) == Fit(Norm(n, 10000))

\* test.py:284-290  MID_FILTER_COEFFS (0.21702805830713853, 0.7929947002337122,
\* 0.9999999999999999, 0, 0)
MID_FILTER_COEFFS == << Dec(2170), Dec(7930), One, Zero, Zero >>

\* test.py:293-299  HIGH_FILTER_COEFFS (0.7463190713881916, 0.7072135613293842,
\* 1.0, 0, 0)
HIGH_FILTER_COEFFS == << Dec(7463), Dec(7072), One, Zero, Zero >>

\* test.py:149-159, 173-182  UnknownFilter() followed by set_params(*coeffs):
\* the five numbers are stored as C0..C4 as they are
FilterInit(coeffs) ==
    [ C |-> coeffs, state |-> << Zero, Zero, Zero, Zero >> ]

\* test.py:197-201  inv = 1/denom if abs(denom) > 1e-20 else 0 (every non-zero
\* number of the model is above 1e-20)
FilterInv(c0, c1) ==
    Local(RAdd(RMul(RAdd(RMul(c1, Two), c0), c0), One), LAMBDA denom :
        IF denom[1] # 0 THEN RDiv(One, denom) ELSE Zero)

\* test.py:197-224  one sample of one channel: sa is s0 (left) or s1 (right),
\* sb is s2 (left) or s3 (right)
FilterChannel(C, inp, sa, sb) ==
    LET c0 == C[1]
        two_c0 == RMul(c0, Two)
        two_c1 == RMul(C[2], Two)
        mix == RAdd(two_c1, c0)
    IN  Local(FilterInv(c0, C[2]), LAMBDA inv :
        Local(RAdd(RMul(inp, c0), sa), LAMBDA acc :
        Local(RSub(inp, RMul(RAdd(RMul(mix, acc), sb), inv)), LAMBDA hp :
        Local(RAdd(RMul(RMul(RSub(acc, RMul(sb, c0)), inv), c0), sb), LAMBDA sb_temp :
        Local(RAdd(RMul(hp, c0), sa), LAMBDA bp :
            [ out |-> RAdd(RAdd(RMul(C[4], bp), RMul(C[5], sb_temp)), RMul(C[3], hp)),
              sa  |-> RAdd(RMul(RSub(RSub(inp, RMul(two_c1, bp)), sb_temp), two_c0), sa),
              sb  |-> RAdd(RMul(bp, two_c0), sb) ])))))

\* a loop whose left channel reads the second integrator of the right channel
FilterSampleCrossed(C, blk, left_samples, right_samples, i) ==
    IF i > Len(right_samples) THEN [blk EXCEPT !.raised = TRUE]
    ELSE Local(FilterChannel(C, left_samples[i], blk.state[1], blk.state[4]), LAMBDA l :
         Local(FilterChannel(C, right_samples[i], blk.state[2], blk.state[4]), LAMBDA r :
             [blk EXCEPT !.state = << l.sa, r.sa, l.sb, r.sb >>,
                         !.output_l[i] = l.out,
                         !.output_r[i] = r.out]))

\* test.py:197-230  sample i of the loop, on the local copies of the state.
\* blk is the call in progress: [raised, state, output_l, output_r].
\* right_samples[i] raises IndexError at line 204 when right is the shorter list.
FilterSample(C, blk, left_samples, right_samples, i) ==
    IF i > Len(right_samples) THEN [blk EXCEPT !.raised = TRUE]
    ELSE Local(FilterChannel(C, left_samples[i], blk.state[1], blk.state[3]), LAMBDA l :
         Local(FilterChannel(C, right_samples[i], blk.state[2], blk.state[4]), LAMBDA r :
             [blk EXCEPT !.state = << l.sa, r.sa, l.sb, r.sb >>,
                         !.output_l[i] = l.out,
                         !.output_r[i] = r.out]))

\* test.py:196  for i in range(block_len), from sample i on; a raise ends the loop
RECURSIVE FilterLoop(_, _, _, _, _)
FilterLoop(C, blk, left_samples, right_samples, i) ==
    IF blk.raised \/ i > Len(left_samples) THEN blk
    ELSE FilterLoop(C, FilterSample(C, blk, left_samples, right_samples, i),
                    left_samples, right_samples, i + 1)

\* a call that starts every block from the state the instance was built with
FilterProcessFromRest(f, left_samples, right_samples) ==
    Local(FilterLoop(f.C, [ raised |-> FALSE, state |-> << Zero, Zero, Zero, Zero >>,
                            output_l |-> [i \in 1..Len(left_samples) |-> Zero],
                            output_r |-> [i \in 1..Len(left_samples) |-> Zero] ],
                     left_samples, right_samples, 1), LAMBDA res :
        IF res.raised
        THEN [ raised |-> TRUE, filter |-> f, output_l |-> <<>>, output_r |-> <<>> ]
        ELSE [ raised |-> FALSE, filter |-> [f EXCEPT !.state = res.state],
               output_l |-> res.output_l, output_r |-> res.output_r ])

\* test.py:184-234  UnknownFilter.process, the whole call: both outputs have the
\* length of left; self.state is written at line 232, after the loop, so a call
\* that raises leaves the filter as it was.  The coefficient deltas are 0,
\* so line 233 writes C back unchanged.
FilterProcess(f, left_samples, right_samples) ==
    Local(FilterLoop(f.C, [ raised |-> FALSE, state |-> f.state,
                            output_l |-> [i \in 1..Len(left_samples) |-> Zero],
                            output_r |-> [i \in 1..Len(left_samples) |-> Zero] ],
                     left_samples, right_samples, 1), LAMBDA res :
        IF res.raised
        THEN [ raised |-> TRUE, filter |-> f, output_l |-> <<>>, output_r |-> <<>> ]
        ELSE [ raised |-> FALSE, filter |-> [f EXCEPT !.state = res.state],
               output_l |-> res.output_l, output_r |-> res.output_r ])

-----------------------------------------------------------------------------
(* UnknownFilter of src/filter.py: the design step and the process routine *)

\* filter.py:39-45, 48-54  the root of a scalar expression: purely imaginary
\* when the expression is <= 0, else purely real
DesignRoot(val) ==
    IF RLe(val, Zero) THEN [ re |-> Zero, im |-> Sqrt(RNeg(val)) ]
    ELSE [ re |-> Sqrt(val), im |-> Zero ]

\* filter.py:59-65  the ratio solve: [raised, divisor (the part of the second
\* root the branch divides by), dVar9].  Both branches divide by root2_im; a
\* division by 0.0 raises ZeroDivisionError.
DesignRatio(root1, root2) ==
    IF root2.im = Zero
    THEN [ raised |-> TRUE, divisor |-> root2.im, dVar9 |-> Zero ]
    ELSE IF RLe(RAbs(root2.re), RAbs(root2.im))
    THEN Local(RDiv(root2.im, root2.im), LAMBDA q :
         Local(RAdd(RMul(root2.im, q), root2.re), LAMBDA dVar24 :
             IF dVar24 = Zero
             THEN [ raised |-> TRUE, divisor |-> root2.im, dVar9 |-> Zero ]
             ELSE [ raised |-> FALSE, divisor |-> root2.im,
                    dVar9 |-> RDiv(RAdd(RMul(root1.im, q), root1.re), dVar24) ]))
    ELSE Local(RDiv(root2.re, root2.im), LAMBDA q :
         Local(RAdd(RMul(root2.re, q), root2.im), LAMBDA dVar24 :
             IF dVar24 = Zero
             THEN [ raised |-> TRUE, divisor |-> root2.im, dVar9 |-> Zero ]
             ELSE [ raised |-> FALSE, divisor |-> root2.im,
                    dVar9 |-> RDiv(RAdd(root1.im, RMul(root1.re, q)), dVar24) ]))

\* filter.py:70-78  the coefficient mapping, given the roots and the ratio;
\* each of the three denominators raises ZeroDivisionError when it is 0.0
DesignMapping(P, root1, root2, ratio) ==
    Local(RSub(RMul(root1.re, root2.re), RMul(root2.im, root1.im)), LAMBDA den :
        IF den = Zero \/ RAdd(RSub(One, P[4]), P[5]) = Zero
                      \/ RAdd(RAdd(P[4], One), P[5]) = Zero
        THEN [ raised |-> TRUE, divisor |-> ratio.divisor, root2 |-> root2, C |-> <<>> ]
        ELSE [ raised |-> FALSE, divisor |-> ratio.divisor, root2 |-> root2,
               C |-> << ratio.dVar9,
                        RMul(RSub(P[5], One), RDiv(One, den)),
                        RDiv(RAdd(RSub(P[1], P[2]), P[3]), RAdd(RSub(One, P[4]), P[5])),
                        RMul(RMul(RSub(P[1], P[3]), R(-2)), RDiv(One, den)),
                        RDiv(RAdd(RAdd(P[1], P[2]), P[3]), RAdd(RAdd(P[4], One), P[5])) >> ])

\* filter.py:30-78  _calculate_coefficients(P) for P = <<P0, .., P4>>:
\* [raised, divisor, root2, C]
CalculateCoefficients(P) ==
    Local(DesignRoot(RSub(RSub(R(-1), P[4]), P[5])), LAMBDA root1 :
    Local(DesignRoot(RSub(RSub(P[4], One), P[5])), LAMBDA root2 :
    Local(DesignRatio(root1, root2), LAMBDA ratio :
        IF ratio.raised
        THEN [ raised |-> TRUE, divisor |-> ratio.divisor, root2 |-> root2, C |-> <<>> ]
        ELSE DesignMapping(P, root1, root2, ratio))))

\* filter.py:15-21  the design parameters the constructor holds (the numbers of
\* MID_FILTER_COEFFS)
DefaultP == MID_FILTER_COEFFS

\* filter.py:5-28  UnknownFilter.__init__: the coefficients designed from P
DesignedFilterInit == FilterInit(CalculateCoefficients(DefaultP).C)

\* filter.py:93-96  the denominator of the inverse term, dVar26 * C0 + 1.0
InverseDenominator(C) ==
    RAdd(RMul(RAdd(RMul(C[2], Two), C[1]), C[1]), One)

\* filter.py:80-139  UnknownFilter.process, the whole call.  Line 96 divides
\* 1.0 by the denominator as it is, before the loop: ZeroDivisionError when it
\* is 0.0.  The loop (lines 98-134) computes, sample for sample and in the same
\* order, what the loop of test.py:196-230 computes with inv = 1/denominator,
\* and the state is saved after it (line 137).
DesignedFilterProcess(f, left_samples, right_samples) ==
    IF InverseDenominator(f.C) = Zero
    THEN [ raised |-> TRUE, filter |-> f, output_l |-> <<>>, output_r |-> <<>> ]
    ELSE FilterProcess(f, left_samples, right_samples)

-----------------------------------------------------------------------------
(* The harness of the filters: a caller that (re)sets the coefficients of an   *)
(* instance of each implementation and processes blocks with both.  Each       *)
(* instance has a twin with the same coefficients and the same initial state,  *)
(* which is given the same blocks in one channel and other blocks in the other *)
(* channel.                                                                    *)

\* the design parameters a caller hands to _calculate_coefficients: both roots
\* imaginary (twice), a purely real second root, a second root of 0 and a first
\* root of 0
DesignParams ==
    { << Half, <<3, 4>>, One, Zero, R(3) >>,
      << <<1, 4>>, Half, One, R(3), R(3) >>,
      << Half, <<3, 4>>, One, R(2), Zero >>,
      << Half, <<3, 4>>, One, One, Zero >>,
      << Half, <<3, 4>>, One, R(-1), Zero >> }

\* the runtime coefficients a caller sets directly: those of the mid lane, a
\* set with all three mixing weights, and a set whose denominator
\* (2*C1 + C0)*C0 + 1 is 0
CoeffSets ==
    { MID_FILTER_COEFFS,
      << Half, <<1, 4>>, One, Half, R(-1) >>,
      << One, R(-1), One, Half, One >> }

\* the samples of the block the twin is given in the channel that differs
OtherIn(n) == [i \in 1..n |-> IF i % 2 = 1 THEN R(3) ELSE <<-1, 4>>]

\* test.py:159  the coefficients of UnknownFilter() before set_params
PassThroughCoeffs == << One, Zero, Zero, Zero, Zero >>

NoFilterCall == [ op |-> "new" ]

FilterHarnessInit ==
    /\ zu = [ py |-> DesignedFilterInit, py2 |-> DesignedFilterInit,
              tp |-> FilterInit(PassThroughCoeffs), tp2 |-> FilterInit(PassThroughCoeffs) ]
    /\ zcall = NoFilterCall
    /\ zn = [ sets |-> 0, calls |-> 0, differ |-> "none" ]

\* the four instances with the coefficients C
WithCoefficients(z, C) ==
    [ u \in DOMAIN z |-> [z[u] EXCEPT !.C = C] ]

\* C = f._calculate_coefficients(P), then the instances take C (f.C = C,
\* set_params(*C)); a design that raises leaves them as they were
FilterDesign ==
    /\ zn.sets < MaxFilterSets
    /\ \E P \in DesignParams :
          Local(CalculateCoefficients(P), LAMBDA res :
              /\ zu' = IF res.raised THEN zu ELSE WithCoefficients(zu, res.C)
              /\ zcall' = [ op |-> "design", P |-> P, res |-> res ])
    /\ zn' = [zn EXCEPT !.sets = @ + 1]

\* the instances take coefficients the caller has at hand (f.C = C,
\* set_params(*C))
FilterSetParams ==
    /\ zn.sets < MaxFilterSets
    /\ \E C \in CoeffSets :
          /\ zu' = WithCoefficients(zu, C)
          /\ zcall' = [ op |-> "set_params", C |-> C ]
    /\ zn' = [zn EXCEPT !.sets = @ + 1]

Take(samples, k) == SubSeq(samples, 1, k)
Drop(samples, k) == SubSeq(samples, k + 1, Len(samples))

\* two consecutive calls on the result of one call
SplitResult(first, second) ==
    [ raised |-> first.raised \/ second.raised, filter |-> second.filter,
      output_l |-> first.output_l \o second.output_l,
      output_r |-> first.output_r \o second.output_r ]

\* test.py's process on the first k samples, then on the rest
FilterSplit(f, left_samples, right_samples, k) ==
    Local(FilterProcess(f, Take(left_samples, k), Take(right_samples, k)), LAMBDA first :
        SplitResult(first, FilterProcess(first.filter, Drop(left_samples, k),
                                         Drop(right_samples, k))))

\* filter.py's process on the first k samples, then on the rest
DesignedFilterSplit(f, left_samples, right_samples, k) ==
    Local(DesignedFilterProcess(f, Take(left_samples, k), Take(right_samples, k)),
          LAMBDA first :
        SplitResult(first, DesignedFilterProcess(first.filter, Drop(left_samples, k),
                                                 Drop(right_samples, k))))

\* what the four calls of one step returned
FilterResults(z, left, right, left2, right2) ==
    [ py  |-> DesignedFilterProcess(z.py, left, right),
      tp  |-> FilterProcess(z.tp, left, right),
      py2 |-> DesignedFilterProcess(z.py2, left2, right2),
      tp2 |-> FilterProcess(z.tp2, left2, right2) ]

\* one process call on each instance with a block of n samples: the twins get
\* other samples in channel ch; split[k] is what py and tp return when the
\* block is processed as its first k samples and then the rest
FilterCall(n, ch) ==
    Local(FilterResults(zu, InLeft(n), InRight(n),
                        IF ch = "left" THEN OtherIn(n) ELSE InLeft(n),
                        IF ch = "right" THEN OtherIn(n) ELSE InRight(n)), LAMBDA res :
        /\ zu' = [ u \in DOMAIN zu |-> res[u].filter ]
        /\ zcall' = [ op |-> "process", n |-> n, pre |-> zu, res |-> res,
                      split |-> [ k \in 0..n |->
                                    [ py |-> DesignedFilterSplit(zu.py, InLeft(n), InRight(n), k),
                                      tp |-> FilterSplit(zu.tp, InLeft(n), InRight(n), k) ] ] ])

\* the channel in which the twins differ is chosen with the first call of a run
FilterProcessCall ==
    /\ zn.calls < MaxFilterCalls
    /\ \E n \in BlockLens, ch \in {"left", "right"} :
          /\ zn.differ \in {"none", ch}
          /\ FilterCall(n, ch)
          /\ zn' = [zn EXCEPT !.calls = @ + 1, !.differ = ch]

FilterNext == FilterDesign \/ FilterSetParams \/ FilterProcessCall

-----------------------------------------------------------------------------
(* The claims about the filters, checked under SpecFilter *)

\* C14 (the design step does not divide by zero): for design parameters whose
\* second root is not 0, _calculate_coefficients completes, and the part of the
\* second root its ratio solve divides by is the one of larger magnitude, for a
\* purely imaginary second root (P3 - 1 - P4 < 0) and for a purely real one
\* (P3 - 1 - P4 > 0).
C14_DesignCompletes ==
    (zcall.op = "design" /\ zcall.res.root2 # [ re |-> Zero, im |-> Zero ])
    => /\ ~zcall.res.raised
       /\ zcall.res.divisor # Zero
       /\ RLe(RAbs(zcall.res.root2.re), RAbs(zcall.res.divisor))
       /\ RLe(RAbs(zcall.res.root2.im), RAbs(zcall.res.divisor))

\* C15 (the guarded inverse): a process call on a filter whose denominator
\* (2*C1 + C0)*C0 + 1 vanishes completes, in either implementation, with one
\* output sample per input sample, computed with an inverse term of 0: the
\* first sample of a block gives hp = input, s2_temp = s2 and bp = input*C0 + s0.
C15_GuardedInverse ==
    zcall.op = "process"
    => \A u \in {"py", "tp"} :
          InverseDenominator(zcall.pre[u].C) = Zero
          => /\ ~zcall.res[u].raised
             /\ Len(zcall.res[u].output_l) = zcall.n
             /\ Len(zcall.res[u].output_r) = zcall.n
             /\ zcall.n >= 1
                   => zcall.res[u].output_l[1] =
                         RAdd(RAdd(RMul(zcall.pre[u].C[4],
                                        RAdd(RMul(InLeft(zcall.n)[1], zcall.pre[u].C[1]),
                                             zcall.pre[u].state[1])),
                                   RMul(zcall.pre[u].C[5], zcall.pre[u].state[3])),
                              RMul(zcall.pre[u].C[3], InLeft(zcall.n)[1]))

\* C18 (channel independence): two instances of either implementation with the
\* same coefficients and the same initial state that are given the same left
\* blocks and different right blocks of the same lengths return the same left
\* samples and hold the same two left integrator states after every call;
\* likewise for the right channel when the left blocks differ.
C18_ChannelIndependence ==
    zcall.op = "process"
    => \A u \in { <<"py", "py2">>, <<"tp", "tp2">> } :
          /\ zu[u[1]].C = zu[u[2]].C
          /\ zcall.res[u[1]].raised = zcall.res[u[2]].raised
          /\ zn.differ = "right"
                => /\ zcall.res[u[1]].output_l = zcall.res[u[2]].output_l
                   /\ zu[u[1]].state[1] = zu[u[2]].state[1]
                   /\ zu[u[1]].state[3] = zu[u[2]].state[3]
          /\ zn.differ = "left"
                => /\ zcall.res[u[1]].output_r = zcall.res[u[2]].output_r
                   /\ zu[u[1]].state[2] = zu[u[2]].state[2]
                   /\ zu[u[1]].state[4] = zu[u[2]].state[4]

\* the second of two blocks of MaxLen samples, with all three mixing weights set:
\* the right samples and states of the twin differ, the left ones do not
C18_Witness ==
    /\ zcall.op = "process" /\ zn.calls = 2 /\ zcall.n = MaxLen /\ zn.differ = "right"
    /\ zu.tp.C = << Half, <<1, 4>>, One, Half, R(-1) >>
    /\ ~zcall.res.tp.raised /\ ~zcall.res.py.raised
    /\ zcall.pre.tp.state[1] # Zero /\ zcall.pre.tp.state[2] # zcall.pre.tp2.state[2]
    /\ zcall.res.tp.output_l[MaxLen] # Zero
    /\ zcall.res.tp.output_r[MaxLen] # zcall.res.tp2.output_r[MaxLen]
    /\ zcall.res.py.output_r[MaxLen] # zcall.res.py2.output_r[MaxLen]
    /\ zu.tp.state[4] # zu.tp2.state[4]

-----------------------------------------------------------------------------
(* FreshAirClone (the composite) *)

\* test.py:302-326  the knob positions of the three curves
CurveKeys == << Zero, <<1, 4>>, Half, <<3, 4>>, One >>

\* test.py:302-308  MID_GAIN_CURVE (0.65954, 1.03339, 1.31514, 1.60191, 1.90498)
MID_GAIN_CURVE == << Dec(6595), Dec(10334), Dec(13151), Dec(16019), Dec(19050) >>

\* test.py:312-318  HIGH_LIMITER_THRESH_CURVE (0.50100, 0.29196, 0.21849,
\* 0.17235, 0.13994)
HIGH_LIMITER_THRESH_CURVE == << Dec(5010), Dec(2920), Dec(2185), Dec(1724), Dec(1399) >>

\* test.py:320-326  HIGH_LIMITER_SHAPE_CURVE (0.73906, 0.63710, 0.58236,
\* 0.53757, 0.49823)
HIGH_LIMITER_SHAPE_CURVE == << Dec(7391), Dec(6371), Dec(5824), Dec(5376), Dec(4982) >>

\* test.py:273-279  the segment search of interpolate_curve from segment i on
RECURSIVE InterpolateFrom(_, _, _)
InterpolateFrom(knob_val, points, i) ==
    IF i >= Len(CurveKeys) THEN Zero
    ELSE IF RLe(CurveKeys[i], knob_val) /\ RLe(knob_val, CurveKeys[i + 1])
    THEN LET t == RDiv(RSub(knob_val, CurveKeys[i]), RSub(CurveKeys[i + 1], CurveKeys[i]))
         IN  RAdd(points[i], RMul(t, RSub(points[i + 1], points[i])))
    ELSE InterpolateFrom(knob_val, points, i + 1)

\* test.py:265-279  interpolate_curve: clamped at both ends, linear between
interpolate_curve(knob_val, points) ==
    IF RLe(knob_val, CurveKeys[1]) THEN points[1]
    ELSE IF RLe(CurveKeys[Len(CurveKeys)], knob_val) THEN points[Len(CurveKeys)]
    ELSE InterpolateFrom(knob_val, points, 1)

\* test.py:343  the threshold of the mid compressor, 0.0316
MidThreshold == Dec(316)

\* test.py:398  the offset taken off the mid drive, 0.05
MidDriveOffset == <<1, 20>>

\* test.py:415  the scale of the high boost, 0.8962, and its exponent, 0.8
HighBoostScale == Dec(8962)
HighBoostExponent == <<4, 5>>

\* test.py:437  the static pad, 0.822
PadVal == <<411, 500>>

\* test.py:433  math.pow(10, trim_db / 20) for the trims a caller sets:
\* 0 dB, -20 dB and -6 dB (0.5012)
TrimLin(trim_db) ==
    CASE trim_db = Zero   -> One
      [] trim_db = R(-20) -> <<1, 10>>
      [] trim_db = R(-6)  -> Dec(5012)

\* test.py:334-366  FreshAirClone.__init__
FreshAirInit ==
    [ mid_filter     |-> FilterInit(MID_FILTER_COEFFS),
      mid_compressor |-> [DynInit EXCEPT !.threshold = MidThreshold, !.mode = 0, !.ratio = Two],
      high_filter    |-> FilterInit(HIGH_FILTER_COEFFS),
      high_gate      |-> [DynInit EXCEPT !.threshold = Zero],
      high_gain      |-> GainInit(DefaultMeterCoeff, DefaultMeterCoeff),
      high_limiter   |-> [DynInit EXCEPT !.mode = 2],
      trim_gain      |-> GainInit(DefaultMeterCoeff, DefaultMeterCoeff),
      static_pad     |-> GainInit(DefaultMeterCoeff, DefaultMeterCoeff),
      knob_mid       |-> Zero,
      knob_high      |-> Zero,
      knob_trim      |-> Zero ]

\* a parameter update that builds a new limiter
SetParametersNewLimiter(c, mid_air, high_air, trim_db) ==
    Local(interpolate_curve(high_air, HIGH_LIMITER_SHAPE_CURVE), LAMBDA slope :
        [c EXCEPT !.knob_mid = mid_air, !.knob_high = high_air, !.knob_trim = trim_db,
                  !.high_limiter = [DynInit EXCEPT
                      !.threshold = interpolate_curve(high_air, HIGH_LIMITER_THRESH_CURVE),
                      !.ratio = IF RLt(slope, One) THEN RDiv(One, RSub(One, slope))
                                ELSE R(20)]])

\* test.py:368-384  FreshAirClone.set_parameters
SetParameters(c, mid_air, high_air, trim_db) ==
    Local(interpolate_curve(high_air, HIGH_LIMITER_SHAPE_CURVE), LAMBDA slope :
        [c EXCEPT !.knob_mid = mid_air, !.knob_high = high_air, !.knob_trim = trim_db,
                  !.high_limiter.threshold =
                      interpolate_curve(high_air, HIGH_LIMITER_THRESH_CURVE),
                  !.high_limiter.ratio =
                      IF RLt(slope, One) THEN RDiv(One, RSub(One, slope)) ELSE R(20)])

\* test.py:400-401  [s * mid_drive for s in block]
RECURSIVE Scaled(_, _)
Scaled(block, mid_drive) ==
    IF block = <<>> THEN <<>>
    ELSE << RMul(Head(block), mid_drive) >> \o Scaled(Tail(block), mid_drive)

\* The steps of FreshAirClone.process.  Each takes and returns the call in
\* progress: [raised, fa (the instance), the local names of the method with the
\* list each is bound to, ref (the identity of the list object a name is bound
\* to, 0 before the name is bound), fresh (the identity the next new list gets)
\* and the per-sample gains the trim and pad stages applied]; a step after a
\* raise does nothing.

\* the names of process that are bound to lists
BufferNames ==
    { "left_in", "right_in", "mid_l", "mid_r", "high_l", "high_r", "out_l", "out_r" }

\* name_l, name_r = <two new lists>: the filter (test.py:186-187), the dynamics
\* unit (compressor.py:77-78), the list comprehensions (test.py:400-401) and the
\* summing loop (test.py:422-423) each build the lists they return
Allocate(p, name_l, name_r) ==
    [p EXCEPT !.ref[name_l] = p.fresh, !.ref[name_r] = p.fresh + 1, !.fresh = @ + 2]

\* gain.py:110, 122  samples[i] = out: the list object that name is bound to
\* is overwritten, which every name bound to the same object sees
InPlace(p, name, samples) ==
    [ f \in DOMAIN p |->
        IF f \in BufferNames /\ p.ref[f] = p.ref[name] THEN samples ELSE p[f] ]

\* test.py:391  mid_l, mid_r = self.mid_filter.process(left_in, right_in)
MidFilterStep(p) ==
    Local(FilterProcess(p.fa.mid_filter, p.left_in, p.right_in), LAMBDA r :
        Allocate([p EXCEPT !.raised = r.raised, !.fa.mid_filter = r.filter,
                           !.mid_l = r.output_l, !.mid_r = r.output_r], "mid_l", "mid_r"))

\* test.py:395-401  the drive
MidDriveStep(p) ==
    IF p.raised THEN p
    ELSE Local(RSub(interpolate_curve(p.fa.knob_mid, MID_GAIN_CURVE), MidDriveOffset),
             LAMBDA mid_drive :
             Allocate([p EXCEPT !.mid_l = Scaled(p.mid_l, mid_drive),
                                !.mid_r = Scaled(p.mid_r, mid_drive)], "mid_l", "mid_r"))

\* test.py:404  mid_l, mid_r = self.mid_compressor.process_block(mid_l, mid_r)
MidCompressorStep(p) ==
    IF p.raised THEN p
    ELSE Local(DynProcessBlock(p.fa.mid_compressor, p.mid_l, p.mid_r), LAMBDA r :
             Allocate([p EXCEPT !.raised = r.raised, !.fa.mid_compressor = r.state,
                                !.mid_l = r.output_l, !.mid_r = r.output_r], "mid_l", "mid_r"))

\* test.py:408  high_l, high_r = self.high_filter.process(left_in, right_in)
HighFilterStep(p) ==
    IF p.raised THEN p
    ELSE Local(FilterProcess(p.fa.high_filter, p.left_in, p.right_in), LAMBDA r :
             Allocate([p EXCEPT !.raised = r.raised, !.fa.high_filter = r.filter,
                                !.high_l = r.output_l, !.high_r = r.output_r],
                      "high_l", "high_r"))

\* test.py:411  high_l, high_r = self.high_gate.process_block(high_l, high_r)
HighGateStep(p) ==
    IF p.raised THEN p
    ELSE Local(DynProcessBlock(p.fa.high_gate, p.high_l, p.high_r), LAMBDA r :
             Allocate([p EXCEPT !.raised = r.raised, !.fa.high_gate = r.state,
                                !.gate_in_l = p.high_l, !.gate_in_r = p.high_r,
                                !.gate_out_l = r.output_l, !.gate_out_r = r.output_r,
                                !.high_l = r.output_l, !.high_r = r.output_r],
                      "high_l", "high_r"))

\* test.py:415  high_boost = 1.0 + 0.8962 * math.pow(self.knob_high, 0.8)
HighBoost(knob_high) ==
    RAdd(One, RMul(HighBoostScale, Pow(knob_high, HighBoostExponent)))

\* test.py:415-416  self.high_gain.process_block(high_l, high_r, 0, high_boost, 0.0),
\* in place
HighGainStep(p) ==
    IF p.raised THEN p
    ELSE Local(GainProcessBlock(p.fa.high_gain, p.high_l, p.high_r, 0,
                                   HighBoost(p.fa.knob_high), Zero), LAMBDA r :
             InPlace(InPlace([p EXCEPT !.raised = r.raised, !.fa.high_gain = r.state],
                             "high_l", r.left), "high_r", r.right))

\* test.py:419  high_l, high_r = self.high_limiter.process_block(high_l, high_r)
HighLimiterStep(p) ==
    IF p.raised THEN p
    ELSE Local(DynProcessBlock(p.fa.high_limiter, p.high_l, p.high_r), LAMBDA r :
             Allocate([p EXCEPT !.raised = r.raised, !.fa.high_limiter = r.state,
                                !.high_l = r.output_l, !.high_r = r.output_r],
                      "high_l", "high_r"))

\* test.py:425-430  the summing loop from sample i on: dry + mid + high
RECURSIVE Summed(_, _, _, _, _)
Summed(block_len, dry, mid, high, i) ==
    IF i > block_len THEN <<>>
    ELSE << RAdd(RAdd(dry[i], mid[i]), high[i]) >> \o Summed(block_len, dry, mid, high, i + 1)

\* a summing loop that accumulates into the caller's lists and returns them
SumStepOntoInput(p) ==
    IF p.raised THEN p
    ELSE [p EXCEPT !.out_l = Summed(Len(p.left_in), p.left_in, p.mid_l, p.high_l, 1),
                   !.out_r = Summed(Len(p.left_in), p.right_in, p.mid_r, p.high_r, 1),
                   !.left_in = Summed(Len(p.left_in), p.left_in, p.mid_l, p.high_l, 1),
                   !.right_in = Summed(Len(p.left_in), p.right_in, p.mid_r, p.high_r, 1),
                   !.ref["out_l"] = p.ref["left_in"],
                   !.ref["out_r"] = p.ref["right_in"]]

\* test.py:422-430  out_l, out_r (two new lists) over block_len = len(left_in)
SumStep(p) ==
    IF p.raised THEN p
    ELSE Allocate([p EXCEPT !.out_l = Summed(Len(p.left_in), p.left_in, p.mid_l, p.high_l, 1),
                            !.out_r = Summed(Len(p.left_in), p.right_in, p.mid_r, p.high_r, 1)],
                  "out_l", "out_r")

\* test.py:433-434  self.trim_gain.process_block(out_l, out_r, 0, trim_lin, 0.0),
\* in place
TrimStep(p) ==
    IF p.raised THEN p
    ELSE Local(GainProcessBlock(p.fa.trim_gain, p.out_l, p.out_r, 0,
                                   TrimLin(p.fa.knob_trim), Zero), LAMBDA r :
             InPlace(InPlace([p EXCEPT !.raised = r.raised, !.fa.trim_gain = r.state,
                                       !.trim_gains = r.gains],
                             "out_l", r.left), "out_r", r.right))

\* test.py:437-438  self.static_pad.process_block(out_l, out_r, 0, pad_val, 0.0),
\* in place
PadStep(p) ==
    IF p.raised THEN p
    ELSE Local(GainProcessBlock(p.fa.static_pad, p.out_l, p.out_r, 0, PadVal, Zero), LAMBDA r :
             InPlace(InPlace([p EXCEPT !.raised = r.raised, !.fa.static_pad = r.state,
                                       !.pad_gains = r.gains],
                             "out_l", r.left), "out_r", r.right))

\* test.py:386-440  FreshAirClone.process, the whole call
FreshAirProcess(c, left_in, right_in) ==
    LET start == [ raised |-> FALSE, fa |-> c, left_in |-> left_in, right_in |-> right_in,
                   mid_l |-> <<>>, mid_r |-> <<>>, high_l |-> <<>>, high_r |-> <<>>,
                   gate_in_l |-> <<>>, gate_in_r |-> <<>>,
                   gate_out_l |-> <<>>, gate_out_r |-> <<>>,
                   out_l |-> <<>>, out_r |-> <<>>,
                   trim_gains |-> <<>>, pad_gains |-> <<>>,
                   ref |-> [ f \in BufferNames |->
                               IF f = "left_in" THEN 1 ELSE IF f = "right_in" THEN 2 ELSE 0 ],
                   fresh |-> 3 ]
    IN  PadStep(TrimStep(SumStep(HighLimiterStep(HighGainStep(HighGateStep(
            HighFilterStep(MidCompressorStep(MidDriveStep(MidFilterStep(start))))))))))

-----------------------------------------------------------------------------
(* The harness of the composite: a host that sets the knobs and processes *)

\* <<mid_air, high_air, trim_db>> a host sets
KnobSettings ==
    { << Half, One, R(-20) >>, << One, <<1, 4>>, R(-6) >> }

\* <<len(left_in), len(right_in)>> of a call that breaks the equal-length
\* contract: right the shorter, right the longer
FaMismatchedLens == { <<1, 0>>, <<MaxLen, MaxLen + 1>> }

NoFaCall ==
    [ op |-> "new", pre |-> FreshAirInit, raised |-> FALSE, n |-> 0, m |-> 0,
      gate_in_l |-> <<>>, gate_in_r |-> <<>>, gate_out_l |-> <<>>, gate_out_r |-> <<>>,
      out_l |-> <<>>, out_r |-> <<>>,
      left_in |-> <<>>, right_in |-> <<>>, mid_l |-> <<>>, mid_r |-> <<>>,
      high_l |-> <<>>, high_r |-> <<>>, trim_gains |-> <<>>, pad_gains |-> <<>>,
      ref |-> [ f \in BufferNames |-> 0 ] ]

FaHarnessInit ==
    /\ fa = FreshAirInit
    /\ fcall = NoFaCall
    /\ fn = [ calls |-> 0, sets |-> 0, mismatched |-> FALSE ]

\* set_parameters between two process calls (or before the first)
FaSetParameters ==
    /\ fn.sets < MaxSets
    /\ \E k \in KnobSettings :
          /\ fa' = SetParameters(fa, k[1], k[2], k[3])
          /\ fcall' = [NoFaCall EXCEPT !.op = "set_parameters", !.pre = fa]
    /\ fn' = [fn EXCEPT !.sets = @ + 1]

\* one process call; left_in and right_in are the caller's two lists as the call
\* left them
FaCall(n, m) ==
    Local(FreshAirProcess(fa, InLeft(n), InRight(m)), LAMBDA res :
        /\ fa' = res.fa
        /\ fcall' = [ op |-> "process", pre |-> fa, raised |-> res.raised, n |-> n, m |-> m,
                      gate_in_l |-> res.gate_in_l, gate_in_r |-> res.gate_in_r,
                      gate_out_l |-> res.gate_out_l, gate_out_r |-> res.gate_out_r,
                      out_l |-> res.out_l, out_r |-> res.out_r,
                      left_in |-> res.left_in, right_in |-> res.right_in,
                      mid_l |-> res.mid_l, mid_r |-> res.mid_r,
                      high_l |-> res.high_l, high_r |-> res.high_r,
                      trim_gains |-> res.trim_gains, pad_gains |-> res.pad_gains,
                      ref |-> res.ref ])

FaProcess ==
    /\ fn.calls < MaxFaCalls
    /\ \E n \in BlockLens :
          /\ FaCall(n, n)
          /\ fn' = [fn EXCEPT !.calls = @ + 1]

\* at most one call of a run passes left and right of different lengths
FaProcessMismatched ==
    /\ fn.calls < MaxFaCalls
    /\ ~fn.mismatched
    /\ \E nm \in FaMismatchedLens :
          /\ FaCall(nm[1], nm[2])
          /\ fn' = [fn EXCEPT !.calls = @ + 1, !.mismatched = TRUE]

FaNext == FaSetParameters \/ FaProcess \/ FaProcessMismatched

-----------------------------------------------------------------------------
(* The claims about the composite, checked under Spec *)

\* the persistent state fields of the component instances
FilterState(c) == << c.mid_filter.state, c.high_filter.state >>
DynamicsState(c) ==
    [ u \in {"mid_compressor", "high_gate", "high_limiter"} |->
         << c[u].rms_state, c[u].peak_state, c[u].gain_state >> ]
GainStageState(c) == << c.high_gain, c.trim_gain, c.static_pad >>

\* C4 (parameter-update continuity): set_parameters, at any point between
\* process calls, leaves every persistent state field of the two filters, the
\* three dynamics units and the three gain stages as it was; nothing but the
\* three knob values and the threshold and ratio of the high limiter changes.
C4_ParameterContinuity ==
    fcall.op = "set_parameters"
    => /\ FilterState(fa) = FilterState(fcall.pre)
       /\ DynamicsState(fa) = DynamicsState(fcall.pre)
       /\ GainStageState(fa) = GainStageState(fcall.pre)
       /\ [fa EXCEPT !.knob_mid = fcall.pre.knob_mid,
                     !.knob_high = fcall.pre.knob_high,
                     !.knob_trim = fcall.pre.knob_trim,
                     !.high_limiter.threshold = fcall.pre.high_limiter.threshold,
                     !.high_limiter.ratio = fcall.pre.high_limiter.ratio] = fcall.pre

\* a parameter update after a block has moved every component off its initial
\* state, and the update moves the limiter's threshold
C4_Witness ==
    /\ fcall.op = "set_parameters"
    /\ fn.calls > 0
    /\ FilterState(fa) # FilterState(FreshAirInit)
    /\ \A u \in {"mid_compressor", "high_gate", "high_limiter"} :
          DynamicsState(fa)[u] # DynamicsState(FreshAirInit)[u]
    /\ fa.high_gain.initialized /\ fa.trim_gain.initialized /\ fa.static_pad.initialized
    /\ fa.high_limiter.threshold # fcall.pre.high_limiter.threshold
    /\ fa.knob_trim # fcall.pre.knob_trim

\* C7 (the high-lane gate is an identity stage): after every process call the
\* gate's smoothed gain is 1 and every sample the gate returned equals the
\* sample it was given.
C7_GateIdentity ==
    (fcall.op = "process" /\ ~fcall.raised)
    => /\ fa.high_gate.gain_state = One
       /\ fcall.gate_out_l = fcall.gate_in_l
       /\ fcall.gate_out_r = fcall.gate_in_r

\* C13 (the inputs are not modified): after a process call returns, the
\* caller's left_in and right_in hold the values they held before the call; the
\* two returned lists are objects other than the two input lists and other than
\* each other and have the length of left_in; and every output sample is
\* (dry + mid lane output + high lane output) times the gain the trim stage
\* applied to it times the gain the pad stage applied to it, the pad gain being
\* the constant 0.822 and the trim gain on the last sample 10^(trim_db/20).
C13_InputsNotModified ==
    (fcall.op = "process" /\ ~fcall.raised)
    => /\ fcall.left_in = InLeft(fcall.n)
       /\ fcall.right_in = InRight(fcall.m)
       /\ fcall.ref["out_l"] \notin { 0, fcall.ref["left_in"], fcall.ref["right_in"] }
       /\ fcall.ref["out_r"] \notin { 0, fcall.ref["left_in"], fcall.ref["right_in"],
                                       fcall.ref["out_l"] }
       /\ Len(fcall.out_l) = fcall.n
       /\ Len(fcall.out_r) = fcall.n
       /\ Len(fcall.trim_gains) = fcall.n
       /\ Len(fcall.pad_gains) = fcall.n
       /\ \A i \in 1..fcall.n :
             /\ fcall.pad_gains[i] = PadVal
             /\ (i = fcall.n => fcall.trim_gains[i] = TrimLin(fa.knob_trim))
             /\ fcall.out_l[i] =
                    RMul(RMul(RAdd(RAdd(InLeft(fcall.n)[i], fcall.mid_l[i]), fcall.high_l[i]),
                              fcall.trim_gains[i]), fcall.pad_gains[i])
             /\ fcall.out_r[i] =
                    RMul(RMul(RAdd(RAdd(InRight(fcall.m)[i], fcall.mid_r[i]), fcall.high_r[i]),
                              fcall.trim_gains[i]), fcall.pad_gains[i])

\* a second block of MaxLen samples over which the trim stage ramps to a new trim
C13_Witness ==
    /\ fcall.op = "process" /\ ~fcall.raised /\ fn.calls = 2 /\ fcall.n = MaxLen
    /\ fcall.trim_gains[1] # fcall.trim_gains[MaxLen]
    /\ fcall.high_l[1] # Zero /\ fcall.mid_l[1] # Zero
    /\ fcall.out_l # fcall.left_in
    /\ fcall.out_r # fcall.right_in

\* C16 (the lanes hold designed coefficients): the coefficients C0..C4 of the
\* filter of each lane are what the design step derives from the five design
\* parameters of that lane (for P3 = P4 = 0: C0 = 1, C1 = 1, C2 = P0 - P1 + P2,
\* C3 = 2*(P0 - P2), C4 = P0 + P1 + P2), and a process call leaves them as
\* they were.
C16_DesignedCoefficients ==
    /\ fa.mid_filter.C = CalculateCoefficients(MID_FILTER_COEFFS).C
    /\ fa.high_filter.C = CalculateCoefficients(HIGH_FILTER_COEFFS).C
    /\ fcall.op = "process"
          => /\ fa.mid_filter.C = fcall.pre.mid_filter.C
             /\ fa.high_filter.C = fcall.pre.high_filter.C

\* C17 (the limiter follows the High knob): at the start of every process call,
\* those made before any set_parameters included, the threshold of the high
\* limiter is the threshold curve at the stored High knob and its ratio is
\* 1/(1 - slope) for the shape curve at that knob (20 when slope >= 1).
C17_LimiterFollowsKnob ==
    fcall.op = "process"
    => /\ fcall.pre.high_limiter.threshold =
             interpolate_curve(fcall.pre.knob_high, HIGH_LIMITER_THRESH_CURVE)
       /\ fcall.pre.high_limiter.ratio =
             IF RLt(interpolate_curve(fcall.pre.knob_high, HIGH_LIMITER_SHAPE_CURVE), One)
             THEN RDiv(One, RSub(One, interpolate_curve(fcall.pre.knob_high,
                                                        HIGH_LIMITER_SHAPE_CURVE)))
             ELSE R(20)

-----------------------------------------------------------------------------
(* The claim about block boundaries, checked under SpecUnits *)

\* C19 (block-splitting invariance): with the configuration unchanged,
\* processing a stereo block of N samples in one call gives the same output
\* samples and leaves the same persistent state as processing its first k
\* samples and then its remaining N - k samples in two consecutive calls, for
\* every 0 <= k <= N, for the process call of both filter implementations and
\* for the process_block call of the dynamics unit.
C19_BlockSplitInvariance ==
    /\ zcall.op = "process"
          => /\ DOMAIN zcall.split = 0..zcall.n
             /\ \A k \in 0..zcall.n : \A u \in {"py", "tp"} :
                   /\ zcall.split[k][u].raised = zcall.res[u].raised
                   /\ zcall.split[k][u].filter = zu[u]
                   /\ Len(zcall.split[k][u].output_l) = Len(zcall.res[u].output_l)
                   /\ Len(zcall.split[k][u].output_r) = Len(zcall.res[u].output_r)
                   /\ \A i \in 1..Len(zcall.res[u].output_l) :
                         /\ zcall.split[k][u].output_l[i] = zcall.res[u].output_l[i]
                         /\ zcall.split[k][u].output_r[i] = zcall.res[u].output_r[i]
    /\ (dn.calls > 0 /\ dcall.n = dcall.m)
          => /\ DOMAIN dcall.split = 0..dcall.n
             /\ \A k \in 0..dcall.n :
                   /\ dcall.split[k].raised = dcall.raised
                   /\ dcall.split[k].state = du
                   /\ Len(dcall.split[k].output_l) = Len(dcall.output_l)
                   /\ Len(dcall.split[k].output_r) = Len(dcall.output_r)
                   /\ \A i \in 1..Len(dcall.output_l) :
                         /\ dcall.split[k].output_l[i] = dcall.output_l[i]
                         /\ dcall.split[k].output_r[i] = dcall.output_r[i]

\* the second of two blocks of MaxLen samples through filters with all three
\* mixing weights set: the integrators are away from rest when the block
\* starts, move over its first sample and move again over the rest
C19_Witness ==
    /\ zcall.op = "process" /\ zn.calls = 2 /\ zcall.n = MaxLen
    /\ zu.tp.C = << Half, <<1, 4>>, One, Half, R(-1) >>
    /\ ~zcall.res.tp.raised /\ ~zcall.res.py.raised
    /\ zcall.pre.tp.state # << Zero, Zero, Zero, Zero >>
    /\ zcall.pre.py.state # << Zero, Zero, Zero, Zero >>
    /\ FilterProcess(zcall.pre.tp, Take(InLeft(MaxLen), 1), Take(InRight(MaxLen), 1)).filter.state
          \notin { zcall.pre.tp.state, zu.tp.state }
    /\ zcall.split[1].tp.output_l[MaxLen] # Zero
    /\ zcall.split[1].py.output_l[MaxLen] # Zero
    /\ zcall.split[1].tp.output_l[MaxLen] = zcall.res.tp.output_l[MaxLen]

-----------------------------------------------------------------------------
(* Specifications *)

gvars == <<g, gl, gr, gcall, gn>>
dvars == <<du, dcall, dn>>
fvars == <<fa, fcall, fn>>
zvars == <<zu, zcall, zn>>
vars == <<gvars, dvars, fvars, zvars>>

Init == GainHarnessInit /\ DynHarnessInit /\ FaHarnessInit /\ FilterHarnessInit

\* the gain stage alone
SpecGain == Init /\ [][GainNext /\ UNCHANGED <<dvars, fvars, zvars>>]_vars

\* the dynamics unit alone
SpecDyn == Init /\ [][DynNext /\ UNCHANGED <<gvars, fvars, zvars>>]_vars

\* the filters alone
SpecFilter == Init /\ [][FilterNext /\ UNCHANGED <<gvars, dvars, fvars>>]_vars

\* the composite
Spec == Init /\ [][FaNext /\ UNCHANGED <<gvars, dvars, zvars>>]_vars

\* the two kinds of unit that carry state from block to block: a run drives
\* either the dynamics unit or the filters
UnitsNext ==
    \/ DynNext /\ zn.sets = 0 /\ zn.calls = 0 /\ UNCHANGED <<gvars, fvars, zvars>>
    \/ FilterNext /\ ~dn.configured /\ UNCHANGED <<gvars, dvars, fvars>>

SpecUnits == Init /\ [][UnitsNext]_vars

====
